---- MODULE Spec2Model ----
(***************************************************************************)
(* A model of three components of subxt:                                   *)
(*   - the metadata fetcher   (codegen/src/utils/fetch_metadata.rs)        *)
(*   - the runtime API client (subxt/src/runtime_api/runtime_client.rs)    *)
(*   - the jsonrpsee adapter  (subxt/src/rpc/jsonrpsee_impl.rs)            *)
(* Each component is an independent entry point and has its own            *)
(* specification (SpecFetch, SpecApi, SpecSub) over the shared variables.  *)
(***************************************************************************)
EXTENDS Integers, Sequences, FiniteSets, TLC

\* ------------------------------------------------------------------ bounds
\* Longest response string the node returns.
MaxLen == 4
\* Most handles (resolved or cloned) created in one behaviour.
MaxHandles == 3
\* Number of distinct block hashes.
NumHashes == 2
\* Most items a server pushes on one subscription.
MaxPush == 3

\* --------------------------------------------------------- program constants
RequestTimeoutSecs == 180
MaxNotifsPerSubscription == 4096

VARIABLES
    \* metadata fetcher
    fpc,         \* position of the call in flight
    entry,       \* "hex" | "bytes" | "client" : the function called
    url,         \* [scheme : Option(string), valid : BOOLEAN]
    transports,  \* sequence of the clients constructed so far
    netlog,      \* sequence of the I/O operations started so far
    hexres,      \* result of fetch_metadata_hex
    result,      \* result handed to the caller
    \* runtime API client
    apc,           \* position of the at() call in flight
    atArg,         \* the Option<Hash> at() was given
    best,          \* the chain's best block
    lookups,       \* block_hash(None) calls made by the call in flight
    reply,         \* what block_hash(None) answered
    handles,       \* the live RuntimeApi handles: id -> [hash]
    nextId,        \* id of the next handle
    resolverAlive, \* the RuntimeApiClient has not been dropped
    atResult,      \* what the future of at() resolved to
    resolved,      \* history: id -> the hash resolved when its handle was made
    \* jsonrpsee adapter
    spc,        \* position of the subscription
    subArgs,    \* what subscribe_raw was called with
    wire,       \* the calls made on the jsonrpsee client, in order
    stream,     \* the subscription the returned stream owns, if any
    pushed,     \* the items the server pushed, in order
    delivered,  \* the items the consumer got from the stream, in order
    closed,     \* the transport has closed
    subResult   \* what subscribe_raw returned

fvars == <<fpc, entry, url, transports, netlog, hexres, result>>
avars == <<apc, atArg, best, lookups, reply, handles, nextId, resolverAlive,
           atResult, resolved>>
svars == <<spc, subArgs, wire, stream, pushed, delivered, closed, subResult>>
vars == <<fvars, avars, svars>>

\* ------------------------------------------------------------ common values
\* Option<T>: None is the empty sequence, Some(x) the one-element sequence.
None == <<>>
Some(x) == <<x>>
IsSome(o) == Len(o) = 1
Unwrap(o) == o[1]

Ok(v) == [tag |-> "Ok", val |-> v]
Pending == [tag |-> "Pending", val |-> ""]
Panic == [tag |-> "Panic", val |-> "unwrap"]

\* ======================================================= metadata fetcher

\* FetchMetadataError's variants.
DecodeError(e) == [tag |-> "DecodeError", val |-> e]
RequestError(e) == [tag |-> "RequestError", val |-> e]
InvalidScheme(s) == [tag |-> "InvalidScheme", val |-> s]

\* Characters a response string is made of: hex digits of both cases, the
\* prefix letter and a character that is no hex digit.
Chars == {"0", "x", "a", "F", "g"}
Strings == UNION {[1..n -> Chars] : n \in 0..MaxLen}

\* Schemes a URL may carry.
Schemes == {"http", "https", "ws", "wss", "ftp", "WS", "httpx"}
Urls == [scheme : {None} \cup {Some(s) : s \in Schemes}, valid : BOOLEAN]

\* Errors the jsonrpsee request can end with.
RequestFailures == {"RequestTimeout", "Call"}

\* hex crate: value of a hex digit, -1 for any other character.
HexVal(c) ==
    CASE c = "0" -> 0
      [] c = "a" -> 10
      [] c = "F" -> 15
      [] OTHER -> -1

HasPrefix0x(s) == Len(s) >= 2 /\ s[1] = "0" /\ s[2] = "x"

\* str::trim_start_matches("0x"): removes the pattern for as long as the
\* string starts with it.
RECURSIVE TrimStartMatches0x(_)
TrimStartMatches0x(s) ==
    IF HasPrefix0x(s) THEN TrimStartMatches0x(SubSeq(s, 3, Len(s))) ELSE s

\* hex::decode: odd length is rejected first, then the first character that
\* is no hex digit; otherwise each pair of digits is one byte.
InvalidPositions(s) == {i \in 1..Len(s) : HexVal(s[i]) < 0}
HexDecode(s) ==
    IF Len(s) % 2 # 0 THEN [ok |-> FALSE, bytes |-> <<>>, err |-> "OddLength"]
    ELSE IF InvalidPositions(s) # {}
    THEN [ok |-> FALSE, bytes |-> <<>>,
          err |-> "InvalidHexCharacter"]
    ELSE [ok |-> TRUE,
          bytes |-> [i \in 1..(Len(s) \div 2) |->
                        16 * HexVal(s[2 * i - 1]) + HexVal(s[2 * i])],
          err |-> ""]

\* Mutant: the scheme is compared without regard to case.
RouteIgnoringCase(scheme) ==
    IF scheme = Some("http") \/ scheme = Some("https") THEN "http"
    ELSE IF scheme \in {Some("ws"), Some("wss"), Some("WS")} THEN "ws"
    ELSE "invalid"

\* fetch_metadata_hex's match on the scheme.
Route(scheme) ==
    IF scheme = Some("http") \/ scheme = Some("https") THEN "http"
    ELSE IF scheme = Some("ws") \/ scheme = Some("wss") THEN "ws"
    ELSE "invalid"

\* The error of the match's last arm.
SchemeError(scheme) ==
    InvalidScheme(IF IsSome(scheme) THEN Unwrap(scheme) ELSE "no scheme")

\* fetch_metadata_bytes after the hex string is back.
BytesOf(hres) ==
    IF hres.tag # "Ok" THEN hres
    ELSE LET d == HexDecode(TrimStartMatches0x(hres.val))
         IN IF d.ok THEN Ok(d.bytes) ELSE DecodeError(d.err)

\* Client configurations, as the builders leave them. Unset is a setting the
\* builder was not given.
Unset == -1
\* Mutant: the HTTP builder is not given the request timeout.
HttpClientConfigNoTimeout ==
    [kind |-> "http", by |-> "fetch", timeout |-> Unset, maxNotifs |-> Unset]

HttpClientConfig ==
    [kind |-> "http", by |-> "fetch", timeout |-> RequestTimeoutSecs,
     maxNotifs |-> Unset]
WsClientConfig ==
    [kind |-> "ws", by |-> "fetch", timeout |-> RequestTimeoutSecs,
     maxNotifs |-> MaxNotifsPerSubscription]
HelperClientConfig ==
    [kind |-> "ws", by |-> "client", timeout |-> Unset,
     maxNotifs |-> MaxNotifsPerSubscription]

\* What the program asks of the network, with the answer it got.
MetadataRequest(on, resp) ==
    [op |-> "request", method |-> "state_getMetadata", params |-> <<>>,
     on |-> on, resp |-> resp]
Handshake(resp) ==
    [op |-> "handshake", method |-> "", params |-> <<>>, on |-> 0, resp |-> resp]
Connected == Ok("connected")

InitFetch ==
    /\ fpc = "idle"
    /\ entry = "none"
    /\ url = [scheme |-> None, valid |-> TRUE]
    /\ transports = <<>>
    /\ netlog = <<>>
    /\ hexres = Pending
    /\ result = Pending

\* fetch_metadata_hex / fetch_metadata_bytes are called: the match on the
\* scheme selects the transport or fails at once.
FetchCall(e, u) ==
    /\ fpc = "idle"
    /\ entry' = e
    /\ url' = u
    /\ IF Route(u.scheme) = "invalid"
       THEN /\ hexres' = SchemeError(u.scheme)
            /\ fpc' = "hex_returned"
       ELSE /\ hexres' = hexres
            /\ fpc' = Route(u.scheme)
    /\ UNCHANGED <<transports, netlog, result, avars, svars>>

\* fetch_metadata_http: HttpClientBuilder ... build(url)?
FetchMetadataHttp ==
    /\ fpc = "http"
    /\ IF url.valid
       THEN /\ transports' = Append(transports, HttpClientConfig)
            /\ fpc' = "http_request"
            /\ hexres' = hexres
       ELSE /\ hexres' = RequestError("Transport")
            /\ fpc' = "hex_returned"
            /\ transports' = transports
    /\ UNCHANGED <<entry, url, netlog, result, avars, svars>>

\* client.request("state_getMetadata", rpc_params![]).await? on either client.
Request(from) ==
    /\ fpc = from
    /\ \/ \E h \in Strings : hexres' = Ok(h)
       \/ \E e \in RequestFailures : hexres' = RequestError(e)
    /\ netlog' = Append(netlog, MetadataRequest(Len(transports), hexres'))
    /\ fpc' = "hex_returned"
    /\ UNCHANGED <<entry, url, transports, result, avars, svars>>

HttpRequest == Request("http_request")
WsRequest == Request("ws_request")

\* fetch_metadata_ws: url.to_string().parse::<Uri>().unwrap()
FetchMetadataWsParse ==
    /\ fpc = "ws"
    /\ IF url.valid
       THEN /\ fpc' = "ws_handshake"
            /\ result' = result
       ELSE /\ fpc' = "done"
            /\ result' = Panic
    /\ UNCHANGED <<entry, url, transports, netlog, hexres, avars, svars>>

\* fetch_metadata_ws: the transport's build (the handshake), then the client.
FetchMetadataWsConnect ==
    /\ fpc = "ws_handshake"
    /\ \/ /\ netlog' = Append(netlog, Handshake(Connected))
          /\ transports' = Append(transports, WsClientConfig)
          /\ fpc' = "ws_request"
          /\ hexres' = hexres
       \/ /\ netlog' = Append(netlog, Handshake(RequestError("Transport")))
          /\ hexres' = RequestError("Transport")
          /\ fpc' = "hex_returned"
          /\ transports' = transports
    /\ UNCHANGED <<entry, url, result, avars, svars>>

\* fetch_metadata_hex returns; fetch_metadata_bytes decodes what it got.
HexReturn ==
    /\ fpc = "hex_returned"
    /\ result' = IF entry = "bytes" THEN BytesOf(hexres) ELSE hexres
    /\ fpc' = "done"
    /\ UNCHANGED <<entry, url, transports, netlog, hexres, avars, svars>>

\* jsonrpsee_helpers::client is called: ws_transport parses the URL.
ClientCall(u) ==
    /\ fpc = "idle"
    /\ entry' = "client"
    /\ url' = u
    /\ IF u.valid
       THEN /\ fpc' = "helper_handshake"
            /\ result' = result
       ELSE /\ fpc' = "done"
            /\ result' = [tag |-> "Err", val |-> "Transport"]
    /\ UNCHANGED <<transports, netlog, hexres, avars, svars>>

\* jsonrpsee_helpers::client: the handshake of ws_transport, then the client.
ClientConnect ==
    /\ fpc = "helper_handshake"
    /\ \/ /\ netlog' = Append(netlog, Handshake(Connected))
          /\ transports' = Append(transports, HelperClientConfig)
          /\ result' = Ok("client")
       \/ /\ netlog' = Append(netlog, Handshake(RequestError("Transport")))
          /\ result' = [tag |-> "Err", val |-> "Transport"]
          /\ transports' = transports
    /\ fpc' = "done"
    /\ UNCHANGED <<entry, url, hexres, avars, svars>>

NextFetch ==
    \/ \E e \in {"hex", "bytes"}, u \in Urls : FetchCall(e, u)
    \/ FetchMetadataHttp
    \/ HttpRequest
    \/ FetchMetadataWsParse
    \/ FetchMetadataWsConnect
    \/ WsRequest
    \/ HexReturn
    \/ \E u \in Urls : ClientCall(u)
    \/ ClientConnect

\* ------------------------------------------------ claims on the fetcher

Supported == {Some("http"), Some("https"), Some("ws"), Some("wss")}
IsFetch == entry \in {"hex", "bytes"}
Requests == {i \in 1..Len(netlog) : netlog[i].op = "request"}
Handshakes == {i \in 1..Len(netlog) : netlog[i].op = "handshake"}

\* C1: for a URL whose scheme is none of http, https, ws, wss (or is absent),
\* no client is constructed and no handshake or request is started at any
\* point of the call, and the call returns InvalidScheme carrying that very
\* scheme, or "no scheme" when the URL has none.
C1_InvalidSchemeNoIO ==
    (IsFetch /\ url.scheme \notin Supported) =>
        /\ transports = <<>>
        /\ netlog = <<>>
        /\ fpc \in {"hex_returned", "done"}
        /\ fpc = "done" =>
              /\ result.tag = "InvalidScheme"
              /\ result.val = IF url.scheme = None THEN "no scheme"
                              ELSE url.scheme[1]

C1_Witness ==
    /\ fpc = "done"
    /\ entry = "bytes"
    /\ url.scheme = Some("ftp")
    /\ transports = <<>>
    /\ netlog = <<>>
    /\ result = InvalidScheme("ftp")

\* The reference of C2 and C3: one leading "0x" removed, if present.
StripOnePrefix(s) == IF HasPrefix0x(s) THEN SubSeq(s, 3, Len(s)) ELSE s

BytesCallGotString == fpc = "done" /\ entry = "bytes" /\ hexres.tag = "Ok"

\* C2: fetch_metadata_bytes returns what hex-decoding the response with one
\* leading "0x" removed returns: the same bytes when that decode succeeds, a
\* failure when it fails.
C2_BytesAreDecodeOfOneStrip ==
    BytesCallGotString =>
        LET ref == HexDecode(StripOnePrefix(hexres.val))
        IN IF ref.ok
           THEN result.tag = "Ok" /\ result.val = ref.bytes
           ELSE result.tag # "Ok"

\* C3: a response that, with its leading "0x" removed, has odd length or a
\* character that is no hex digit makes fetch_metadata_bytes return
\* DecodeError.
C3_MalformedPayloadIsDecodeError ==
    LET rest == StripOnePrefix(hexres.val)
    IN (BytesCallGotString /\ (Len(rest) % 2 = 1 \/ InvalidPositions(rest) # {}))
          => result.tag = "DecodeError"

\* C9: http/https use the HTTP client and ws/wss the WebSocket client; the
\* call issues one request, state_getMetadata without parameters, and returns
\* the response unchanged; on ws/wss the request follows a completed
\* handshake, and a failed handshake or URL parse ends the call with
\* RequestError and no request.
C9_TransportByScheme ==
    (IsFetch /\ url.scheme \in Supported) =>
        \A i \in 1..Len(transports) :
            transports[i].kind = Route(url.scheme) /\ transports[i].by = "fetch"
C9_OneMetadataRequest ==
    (IsFetch /\ url.scheme \in Supported) =>
        /\ Cardinality(Requests) <= 1
        /\ fpc = "done" /\ transports # <<>> => Cardinality(Requests) = 1
        /\ \A i \in Requests :
              /\ netlog[i].method = "state_getMetadata"
              /\ netlog[i].params = <<>>
              /\ netlog[i].on \in 1..Len(transports)
        /\ (fpc = "done" /\ entry = "hex") =>
              \A i \in Requests : result = netlog[i].resp
C9_RequestAfterHandshake ==
    (IsFetch /\ Route(url.scheme) = "ws") =>
        \A i \in Requests :
            \E j \in Handshakes : j < i /\ netlog[j].resp = Connected
C9_WsFailureIsRequestError ==
    (IsFetch /\ Route(url.scheme) = "ws" /\ fpc = "done"
        /\ (~url.valid \/ \E j \in Handshakes : netlog[j].resp # Connected)) =>
        /\ result.tag = "RequestError"
        /\ Requests = {}
C9_OneRequestOnSchemeTransport ==
    /\ C9_TransportByScheme
    /\ C9_OneMetadataRequest
    /\ C9_RequestAfterHandshake
    /\ C9_WsFailureIsRequestError

\* C10 as stated: every client constructed has the 180 s request timeout and
\* the 4096 notification cap.
C10_EveryClientFullyConfigured ==
    \A i \in 1..Len(transports) :
        /\ transports[i].timeout = 180
        /\ transports[i].maxNotifs = 4096

\* C10 as amended: every client the fetcher constructs has the 180 s request
\* timeout, and every request is issued on such a client; every WebSocket
\* client has the 4096 notification cap; the HTTP client is given no
\* notification cap and the client of jsonrpsee_helpers::client no timeout.
C10_ConfiguredPerBuilder ==
    /\ \A i \in 1..Len(transports) :
          /\ transports[i].by = "fetch" => transports[i].timeout = 180
          /\ transports[i].kind = "ws" => transports[i].maxNotifs = 4096
          /\ transports[i].kind = "http" => transports[i].maxNotifs = Unset
          /\ transports[i].by = "client" => transports[i].timeout = Unset
    /\ \A r \in Requests :
          /\ netlog[r].on \in 1..Len(transports)
          /\ transports[netlog[r].on].timeout = 180

C10_Witness ==
    /\ fpc = "done"
    /\ Requests # {}
    /\ \E i \in 1..Len(transports) : transports[i].kind = "http"

\* ==================================================== runtime API client

Hashes == 1..NumHashes
Err(e) == [tag |-> "Err", val |-> e]

\* Mutant: the best block is looked up whatever the argument.
AlwaysLookup(blockHash) == TRUE

\* The match on block_hash: only None needs the lookup.
NeedsLookup(blockHash) == blockHash = None

\* Mutant: an empty answer is returned as an error value.
AfterLookupNoPanic(r) ==
    IF r.tag = "Err" THEN r
    ELSE IF r.val = None THEN Err("NoBestBlock")
    ELSE Ok(Unwrap(r.val))

\* block_hash(None).await?.expect(..): an error is returned, an empty answer
\* panics, a hash is the block to bind to.
AfterLookup(r) ==
    IF r.tag = "Err" THEN r
    ELSE IF r.val = None THEN Panic
    ELSE Ok(Unwrap(r.val))

\* Mutant: the hash is kept in the state all handles share.
RuntimeApiNewShared(hs, id, hash) ==
    [i \in DOMAIN hs \cup {id} |-> [hash |-> hash]]

\* RuntimeApi::new(client, block_hash): one more handle, bound to the hash.
RuntimeApiNew(hs, id, hash) ==
    [i \in DOMAIN hs \cup {id} |-> IF i = id THEN [hash |-> hash] ELSE hs[i]]

\* The handle the finished call holds for its caller, if any.
InFlightHandle == IF apc = "done" /\ atResult.tag = "Ok" THEN {atResult.val} ELSE {}

InitApi ==
    /\ apc = "idle"
    /\ atArg = None
    /\ best = 1
    /\ lookups = 0
    /\ reply = Pending
    /\ handles = <<>>
    /\ nextId = 1
    /\ resolverAlive = TRUE
    /\ atResult = Pending
    /\ resolved = <<>>

\* at(&self, block_hash): the client is cloned and the future created.
At(blockHash) ==
    /\ apc = "idle"
    /\ resolverAlive
    /\ nextId <= MaxHandles
    /\ atArg' = blockHash
    /\ apc' = "future"
    /\ lookups' = 0
    /\ reply' = Pending
    /\ atResult' = Pending
    /\ UNCHANGED <<best, handles, nextId, resolverAlive, resolved, fvars, svars>>

\* The future runs with Some(hash): the handle is made at once.
AtWithHash ==
    /\ apc = "future"
    /\ ~NeedsLookup(atArg)
    /\ IsSome(atArg)
    /\ handles' = RuntimeApiNew(handles, nextId, Unwrap(atArg))
    /\ resolved' = [i \in DOMAIN resolved \cup {nextId} |->
                       IF i = nextId THEN Unwrap(atArg) ELSE resolved[i]]
    /\ atResult' = Ok(nextId)
    /\ nextId' = nextId + 1
    /\ apc' = "done"
    /\ UNCHANGED <<atArg, best, lookups, reply, resolverAlive, fvars, svars>>

\* The future runs without a usable hash: block_hash(None) is requested.
AtLookup ==
    /\ apc = "future"
    /\ NeedsLookup(atArg)
    /\ lookups' = lookups + 1
    /\ apc' = "awaiting"
    /\ UNCHANGED <<atArg, best, reply, handles, nextId, resolverAlive, atResult,
                   resolved, fvars, svars>>

\* What the future does with the answer r of block_hash(None).
Resume(r) ==
    /\ apc = "awaiting"
    /\ reply' = r
    /\ LET out == AfterLookup(r)
       IN IF out.tag = "Ok"
          THEN /\ handles' = RuntimeApiNew(handles, nextId, out.val)
               /\ resolved' = [i \in DOMAIN resolved \cup {nextId} |->
                                  IF i = nextId THEN out.val ELSE resolved[i]]
               /\ atResult' = Ok(nextId)
               /\ nextId' = nextId + 1
          ELSE /\ atResult' = out
               /\ UNCHANGED <<handles, nextId, resolved>>
    /\ apc' = "done"
    /\ UNCHANGED <<atArg, best, lookups, resolverAlive, fvars, svars>>

\* The node answers with its best block, with nothing, or the call fails.
LookupAnswersBest == Resume(Ok(Some(best)))
LookupAnswersNone == Resume(Ok(None))
LookupFails == Resume(Err("Rpc"))

\* The caller takes the result of the finished call.
AtReturn ==
    /\ apc = "done"
    /\ apc' = "idle"
    /\ UNCHANGED <<atArg, best, lookups, reply, handles, nextId, resolverAlive,
                   atResult, resolved, fvars, svars>>

\* The chain advances.
NewBestBlock ==
    /\ \E b \in Hashes \ {best} : best' = b
    /\ UNCHANGED <<apc, atArg, lookups, reply, handles, nextId, resolverAlive,
                   atResult, resolved, fvars, svars>>

\* A handle is cloned: the clone carries the hash of its original.
CloneHandle(id) ==
    /\ id \in DOMAIN handles \ InFlightHandle
    /\ nextId <= MaxHandles
    /\ handles' = [i \in DOMAIN handles \cup {nextId} |->
                      IF i = nextId THEN handles[id] ELSE handles[i]]
    /\ resolved' = [i \in DOMAIN resolved \cup {nextId} |->
                       IF i = nextId THEN resolved[id] ELSE resolved[i]]
    /\ nextId' = nextId + 1
    /\ UNCHANGED <<apc, atArg, best, lookups, reply, resolverAlive, atResult,
                   fvars, svars>>

\* A handle is dropped.
DropHandle(id) ==
    /\ id \in DOMAIN handles \ InFlightHandle
    /\ handles' = [i \in DOMAIN handles \ {id} |-> handles[i]]
    /\ UNCHANGED <<apc, atArg, best, lookups, reply, nextId, resolverAlive,
                   atResult, resolved, fvars, svars>>

\* The RuntimeApiClient is dropped; a future already created owns its own
\* clone of the client and runs on.
DropResolver ==
    /\ resolverAlive
    /\ resolverAlive' = FALSE
    /\ UNCHANGED <<apc, atArg, best, lookups, reply, handles, nextId, atResult,
                   resolved, fvars, svars>>

NextApi ==
    \/ \E h \in {None} \cup {Some(b) : b \in Hashes} : At(h)
    \/ AtWithHash
    \/ AtLookup
    \/ LookupAnswersBest
    \/ LookupAnswersNone
    \/ LookupFails
    \/ AtReturn
    \/ NewBestBlock
    \/ \E id \in DOMAIN handles : CloneHandle(id)
    \/ \E id \in DOMAIN handles : DropHandle(id)
    \/ DropResolver

\* --------------------------------------- claims on the runtime API client

AtFinished == apc = "done"

\* C4: at(Some(X)) yields a handle bound to X without any best-block lookup;
\* at(None), when the lookup answers B, makes exactly one lookup and yields a
\* handle bound to B.
C4_AtBindsGivenOrBestBlock ==
    AtFinished =>
        /\ IsSome(atArg) =>
              /\ atResult.tag = "Ok"
              /\ lookups = 0
              /\ handles[atResult.val].hash = atArg[1]
        /\ (atArg = None /\ reply.tag = "Ok" /\ reply.val # None) =>
              /\ atResult.tag = "Ok"
              /\ lookups = 1
              /\ handles[atResult.val].hash = reply.val[1]

C4_Witness ==
    /\ AtFinished
    /\ atArg = Some(2)
    /\ best = 1
    /\ atResult.tag = "Ok"
    /\ handles[atResult.val].hash = 2

\* C5: in at(None), a lookup that succeeds with no value ends the call in a
\* panic, a lookup that fails is returned as the error, in both cases without
\* a handle being made; a handle is returned only after a lookup that gave a
\* hash.
C5_EmptyLookupPanics ==
    [][(apc = "awaiting" /\ apc' = "done") =>
          /\ (reply'.tag = "Ok" /\ reply'.val = None) =>
                atResult'.tag = "Panic" /\ handles' = handles /\ nextId' = nextId
          /\ reply'.tag = "Err" =>
                atResult' = reply' /\ handles' = handles /\ nextId' = nextId
          /\ atResult'.tag = "Ok" =>
                /\ reply'.tag = "Ok"
                /\ reply'.val # None
                /\ lookups' = 1
                /\ DOMAIN handles' = DOMAIN handles \cup {atResult'.val}]_vars

C5_Witness ==
    /\ AtFinished
    /\ atArg = None
    /\ reply.tag = "Ok"
    /\ reply.val = None
    /\ atResult.tag = "Panic"

\* C6: a handle, and every clone of it, stays bound to the hash resolved when
\* the handle was made, whatever at() calls, clones, drops and new best
\* blocks follow.
C6_HandleBindingNeverChanges ==
    \A id \in DOMAIN handles : handles[id].hash = resolved[id]

C6_Witness ==
    /\ ~resolverAlive
    /\ 1 \notin DOMAIN handles
    /\ \E id \in DOMAIN handles, other \in DOMAIN handles :
          /\ resolved[id] = resolved[1]
          /\ handles[id].hash # handles[other].hash
          /\ handles[id].hash # best

\* ===================================================== jsonrpsee adapter

SubscribeMethods == {"chain_subscribeNewHeads", "state_subscribeStorage"}
UnsubscribeMethods == {"chain_unsubscribeNewHeads", "state_unsubscribeStorage"}
RawParams == {None, Some("[]")}
Values == {"v1", "v2"}
LibErrors == {"ParseError", "Custom"}

\* jsonrpsee's Error, and its Display.
LibError(k) == [lib |-> k]
ErrorToString(e) == IF e.lib = "ParseError" THEN "Parse error" ELSE "Custom error"
\* subxt's RpcError(String).
RpcError(msg) == [rpc |-> msg]

PushItems == {Ok(v) : v \in Values} \cup {Err(LibError(k)) : k \in LibErrors}

\* Mutant: the unsubscribe method handed on is the subscribe method.
SubscribeCallSameMethod(sub, params, unsub) ==
    [op |-> "subscribe", method |-> sub, params |-> params, unsub |-> sub]

\* SubscriptionClientT::subscribe(self, sub, Params(params), unsub)
SubscribeCall(sub, params, unsub) ==
    [op |-> "subscribe", method |-> sub, params |-> params, unsub |-> unsub]

UnsubscribeCall(method) ==
    [op |-> "unsubscribe", method |-> method, params |-> None, unsub |-> ""]

\* Mutant: a failed item is passed on as the library's error.
MapErrItemUnchanged(item) == item

\* The stream's map_err(|e| RpcError(e.to_string())) on one item.
MapErrItem(item) ==
    IF item.tag = "Ok" THEN item ELSE Err(RpcError(ErrorToString(item.val)))

InitSub ==
    /\ spc = "idle"
    /\ subArgs = [sub |-> "", params |-> None, unsub |-> ""]
    /\ wire = <<>>
    /\ stream = None
    /\ pushed = <<>>
    /\ delivered = <<>>
    /\ closed = FALSE
    /\ subResult = Pending

\* subscribe_raw is called and awaited: the subscribe call goes out.
SubscribeRaw(sub, params, unsub) ==
    /\ spc = "idle"
    /\ subArgs' = [sub |-> sub, params |-> params, unsub |-> unsub]
    /\ wire' = Append(wire, SubscribeCall(sub, params, unsub))
    /\ spc' = "subscribing"
    /\ UNCHANGED <<stream, pushed, delivered, closed, subResult, fvars, avars>>

\* The subscription is established: the library's subscription, which keeps
\* the unsubscribe method it was given, is wrapped and returned as the stream.
SubscribeEstablished ==
    /\ spc = "subscribing"
    /\ stream' = Some([unsub |-> wire[Len(wire)].unsub])
    /\ subResult' = Ok("stream")
    /\ spc' = "open"
    /\ UNCHANGED <<subArgs, wire, pushed, delivered, closed, fvars, avars>>

\* The subscribe call fails: map_err(..)? returns the error, no stream.
SubscribeFailed(k) ==
    /\ spc = "subscribing"
    /\ subResult' = Err(RpcError(ErrorToString(LibError(k))))
    /\ spc' = "failed"
    /\ UNCHANGED <<subArgs, wire, stream, pushed, delivered, closed, fvars, avars>>

\* The server pushes an item, which the library parses or fails to parse.
ServerPush(item) ==
    /\ spc = "open"
    /\ ~closed
    /\ Len(pushed) < MaxPush
    /\ pushed' = Append(pushed, item)
    /\ UNCHANGED <<spc, subArgs, wire, stream, delivered, closed, subResult,
                   fvars, avars>>

\* The consumer polls the stream and gets the next item.
PollNext ==
    /\ spc = "open"
    /\ Len(delivered) < Len(pushed)
    /\ delivered' = Append(delivered, MapErrItem(pushed[Len(delivered) + 1]))
    /\ UNCHANGED <<spc, subArgs, wire, stream, pushed, closed, subResult,
                   fvars, avars>>

\* The transport closes.
TransportClose ==
    /\ spc = "open"
    /\ ~closed
    /\ closed' = TRUE
    /\ UNCHANGED <<spc, subArgs, wire, stream, pushed, delivered, subResult,
                   fvars, avars>>

\* The consumer polls a stream whose transport closed and whose items are
\* all delivered: the stream ends.
PollEnd ==
    /\ spc = "open"
    /\ closed
    /\ Len(delivered) = Len(pushed)
    /\ spc' = "ended"
    /\ UNCHANGED <<subArgs, wire, stream, pushed, delivered, closed, subResult,
                   fvars, avars>>

\* The stream is dropped, and with it the subscription it owns, whose drop
\* issues the unsubscribe call.
DropStream ==
    /\ spc \in {"open", "ended"}
    /\ IsSome(stream)
    /\ wire' = Append(wire, UnsubscribeCall(Unwrap(stream).unsub))
    /\ stream' = None
    /\ spc' = "dropped"
    /\ UNCHANGED <<subArgs, pushed, delivered, closed, subResult, fvars, avars>>

NextSub ==
    \/ \E sub \in SubscribeMethods, params \in RawParams, unsub \in UnsubscribeMethods :
          SubscribeRaw(sub, params, unsub)
    \/ SubscribeEstablished
    \/ \E k \in LibErrors : SubscribeFailed(k)
    \/ \E item \in PushItems : ServerPush(item)
    \/ PollNext
    \/ TransportClose
    \/ PollEnd
    \/ DropStream

\* ---------------------------------------- claims on the jsonrpsee adapter

Unsubscribes == {i \in 1..Len(wire) : wire[i].op = "unsubscribe"}

\* C7: dropping the stream subscribe_raw returned issues exactly one
\* unsubscribe call, for the unsubscribe method given to subscribe_raw, also
\* when no item was delivered; before the drop, and when the subscribe call
\* failed, none is issued.
C7_DropUnsubscribesOnce ==
    /\ spc = "dropped" =>
          /\ Cardinality(Unsubscribes) = 1
          /\ \A i \in Unsubscribes : wire[i].method = subArgs.unsub
    /\ spc # "dropped" => Unsubscribes = {}

C7_Witness ==
    /\ spc = "dropped"
    /\ delivered = <<>>
    /\ pushed # <<>>
    /\ Cardinality(Unsubscribes) = 1

\* C8: the consumer gets the server's items in push order, a failed one as
\* Err(RpcError) with the error's text; a failed item does not end the
\* stream, which ends only once the transport closed; a failed subscribe
\* call is returned as Err(RpcError) and leaves no stream.
C8_ItemErrorsStayInBand ==
    /\ Len(delivered) <= Len(pushed)
    /\ \A i \in 1..Len(delivered) :
          IF pushed[i].tag = "Ok"
          THEN delivered[i] = pushed[i]
          ELSE /\ delivered[i].tag = "Err"
               /\ delivered[i].val = RpcError(ErrorToString(pushed[i].val))
    /\ (spc = "open" /\ Len(delivered) < Len(pushed)) => ENABLED PollNext
    /\ spc = "ended" => closed /\ Len(delivered) = Len(pushed)
    /\ spc = "failed" =>
          /\ subResult.tag = "Err"
          /\ \E k \in LibErrors : subResult.val = RpcError(ErrorToString(LibError(k)))
          /\ stream = None
          /\ delivered = <<>>

C8_Witness ==
    /\ Len(delivered) = 3
    /\ delivered[1].tag = "Ok"
    /\ delivered[2].tag = "Err"
    /\ delivered[3].tag = "Ok"
    /\ delivered[3] = pushed[3]

Init == InitFetch /\ InitApi /\ InitSub

SpecFetch == Init /\ [][NextFetch]_vars
SpecApi == Init /\ [][NextApi]_vars
SpecSub == Init /\ [][NextSub]_vars
====
